---------------------------- MODULE Spec2Model ----------------------------
(***************************************************************************)
(* Analytic Prototype: the Transaction Proxy (backend/main.py) and the     *)
(* Dashboard Client (frontend_streamlit/app.py).                           *)
(*                                                                         *)
(* JSON values are modelled as follows.  A scalar is a string; the string  *)
(* Absent stands for a key that is not in its object (dict.get then gives  *)
(* its default) and the string None for JSON null / Python None.  A field  *)
(* that may hold an object or a list is a record with a "kind" tag.        *)
(***************************************************************************)
EXTENDS Integers, Sequences, FiniteSets, TLC

VARIABLES
    \* ---- Transaction Proxy (backend/main.py)
    envKey,         \* os.environ["HELIUS_API_KEY"] (Absent when unset)
    upstreamData,   \* the upstream API's transaction list of the valid address
                    \* (unchanged while the proxy runs)
    reqAddress,     \* path parameter of the last request
    reqLimit,       \* query parameter of the last request
    upstreamCalls,  \* requests.get calls issued by the last request
    upReply,        \* what the upstream call of the last request gave back
    slim,           \* the handler's list `slim`
    respKind,       \* "none" before any request, then "list" or "error"
    respStatus,     \* HTTP status of the proxy's response
    respDetail,     \* HTTPException detail of an error response
    respBody,       \* the JSON list of a 200 response
    hasPrev,        \* history: the request before had the same address/limit
                    \* and answered a list too
    prevBody,       \* history: the list that earlier request answered
    \* ---- Dashboard Client (frontend_streamlit/app.py)
    pc,             \* where the Streamlit script is: "idle" (the run ended and
                    \* waits for the user), "start", "sleep", "rerun", "crashed"
    backendData,    \* the JSON the backend answers for the valid wallet
                    \* (unchanged while the dashboard runs)
    wallet,         \* sidebar text input
    auto_refresh,   \* sidebar checkbox
    run_btn,        \* st.button value of the current script run
    cache,          \* st.cache_data store of cached_get, by URL
    status,         \* the status message on the page
    shown,          \* what the placeholder holds: "none", "info" or "table"
    table,          \* the DataFrame handed to render_table
    selection,      \* widget state of the "Filter by type" multiselect
    lastExc,        \* history: what run_once raised inside its try in this run
    sinceCall,      \* history: seconds since the last network call, by URL
    sinceOk,        \* history: seconds since the last answered call, by URL
    fetchNet,       \* history: cached_get issued a network call in this run
    fetchGapCall,   \* history: sinceCall of its URL when it was made
    fetchGapOk      \* history: sinceOk of its URL when it was made

proxyVars == <<envKey, upstreamData, reqAddress, reqLimit,
               upstreamCalls, upReply, slim, respKind, respStatus, respDetail,
               respBody, hasPrev, prevBody>>

dashVars == <<pc, backendData, wallet, auto_refresh, run_btn, cache, status, shown, table,
              selection, lastExc, sinceCall, sinceOk, fetchNet,
              fetchGapCall, fetchGapOk>>

vars == <<proxyVars, dashVars>>

--------------------------------------------------------------------------
\* Bounds of the model
MaxTxs == 2
MaxChanges == 2

MaxRows == 2
Quantum == 5

\* Program constants
DefaultLimit == 3
SliderDefault == 10
TTL == 15
SleepSecs == 15

Absent == "ABSENT"
None == "None"

Min(a, b) == IF a < b THEN a ELSE b

SeqsUpTo(S, n) == UNION {[1..k -> S] : k \in 0..n}

--------------------------------------------------------------------------
\* Upstream JSON: balance changes and raw transactions

TokenInfos ==
    {[kind |-> "absent", symbol |-> Absent], [kind |-> "null", symbol |-> Absent]}
    \cup {[kind |-> "obj", symbol |-> s] : s \in {Absent, None, "", "SOL"}}

Changes ==
    {[tokenInfo |-> ti, tokenAmount |-> "1.5", account |-> "A1"] : ti \in TokenInfos}
    \cup {[tokenInfo |-> [kind |-> "obj", symbol |-> "USDC"],
           tokenAmount |-> Absent, account |-> Absent]}

BalanceChangeFields ==
    {[kind |-> k, items |-> <<>>] : k \in {"absent", "null", "malformed"}}
    \cup {[kind |-> "list", items |-> l] : l \in SeqsUpTo(Changes, MaxChanges)}

Scalars(v) == {Absent, None, v}

RawTx(sig, ts, ty, bc) ==
    [signature |-> sig, timestamp |-> ts, type |-> ty, balanceChanges |-> bc]

\* every shape of one raw transaction
RawTxs ==
    {RawTx("S1", ts, ty, bc) : ts \in Scalars("1700000000"),
                               ty \in Scalars("TRANSFER"),
                               bc \in BalanceChangeFields}

SolChange == [tokenInfo |-> [kind |-> "obj", symbol |-> "SOL"],
              tokenAmount |-> "1.5", account |-> "A1"]
NoInfoChange == [tokenInfo |-> [kind |-> "absent", symbol |-> Absent],
                 tokenAmount |-> "1.5", account |-> "A1"]
UsdcChange == [tokenInfo |-> [kind |-> "obj", symbol |-> "USDC"],
               tokenAmount |-> Absent, account |-> Absent]

\* the transactions multi-transaction datasets are built from
TxPool ==
    {RawTx(sig, "1700000000", "TRANSFER", bc) :
        sig \in {"S1", "S2"},
        bc \in {[kind |-> "list", items |-> <<SolChange, NoInfoChange>>],
                [kind |-> "list", items |-> <<UsdcChange>>],
                [kind |-> "null", items |-> <<>>]}}
    \cup {RawTx("S3", Absent, None, [kind |-> "absent", items |-> <<>>])}

TxLists == SeqsUpTo(TxPool, MaxTxs)
SingleTxLists == {<<tx>> : tx \in RawTxs}

Addresses == {"So11111111111111111111111111111111111111112", "not-an-address"}
ValidAddress == "So11111111111111111111111111111111111111112"
Limits == {1, DefaultLimit}
EnvKeys == {Absent, "", "key-1"}

--------------------------------------------------------------------------
\* Python helpers

\* d.get(k): the value, or None when the key is absent
Get(v) == IF v = Absent THEN None ELSE v

\* truth value of None, "" and non-empty strings
Truthy(v) == v \notin {None, ""}

--------------------------------------------------------------------------
\* get_helius_key

MissingKeyDetail == "HELIUS_API_KEY missing in .env or environment variables"

KeyMissingNever(key) == FALSE

KeyMissing(key) == ~Truthy(Get(key))

--------------------------------------------------------------------------
\* the upstream API as seen through requests.get

NoReply == [kind |-> "none", status |-> 0, text |-> "", json |-> <<>>]
NetErr == [kind |-> "neterr", status |-> 0, text |-> "connection timed out", json |-> <<>>]
HttpText(s, t) == [kind |-> "text", status |-> s, text |-> t, json |-> <<>>]
HttpJson(s, l) == [kind |-> "json", status |-> s, text |-> "[...]", json |-> l]

Take(l, n) == SubSeq(l, 1, Min(n, Len(l)))

UpstreamReplies(address, limit) ==
    {NetErr}
    \cup (IF address = ValidAddress
          THEN {HttpJson(200, Take(upstreamData, limit)),
                HttpText(304, ""),
                HttpText(404, "not found"),
                HttpText(500, "upstream failure")}
          ELSE {HttpText(400, "invalid address")})

\* Response.raise_for_status raises HTTPError for 4xx and 5xx
RaisesForStatus(reply) == 400 <= reply.status /\ reply.status < 600

\* resp.json() of a body that is not JSON raises JSONDecodeError: a
\* RequestException (caught, detail str(e)) or, with requests < 2.27, a plain
\* ValueError (uncaught, the framework answers 500)
DecodeFailureDetails == {"Expecting value: line 1 column 1 (char 0)", "Internal Server Error"}

--------------------------------------------------------------------------
\* the simplification loop

SymbolOf(ch) ==
    LET token_info == IF ch.tokenInfo.kind = "obj" THEN ch.tokenInfo
                      ELSE [kind |-> "obj", symbol |-> Absent]
    IN  Get(token_info.symbol)

TokenChange(ch) ==
    [symbol |-> SymbolOf(ch), amount |-> Get(ch.tokenAmount), owner |-> Get(ch.account)]

TokenChangesUnfiltered(items) == [j \in 1..Len(items) |-> TokenChange(items[j])]

RECURSIVE TokenChangesLoop(_)
TokenChangesLoop(items) ==
    IF items = <<>> THEN <<>>
    ELSE LET rest == TokenChangesLoop(SubSeq(items, 1, Len(items) - 1))
             ch == items[Len(items)]
         IN  IF Truthy(SymbolOf(ch)) THEN Append(rest, TokenChange(ch)) ELSE rest

TokenChanges(items) == TokenChangesLoop(items)

\* tx.get("balanceChanges", []) is iterated: None and a number raise TypeError
IterRaises(tx) == tx.balanceChanges.kind \in {"null", "malformed"}

SimplifyTx(tx) ==
    [signature |-> Get(tx.signature),
     timestamp |-> Get(tx.timestamp),
     type |-> Get(tx.type),
     token_changes |-> TokenChanges(tx.balanceChanges.items)]

SlimRetained == slim

SlimInit == <<>>

\* the outer loop: the list built so far, and whether an iteration raised
RECURSIVE SlimLoop(_, _)
SlimLoop(txs, acc) ==
    IF txs = <<>> THEN [raised |-> FALSE, slim |-> acc]
    ELSE IF IterRaises(Head(txs)) THEN [raised |-> TRUE, slim |-> acc]
    ELSE SlimLoop(Tail(txs), Append(acc, SimplifyTx(Head(txs))))

--------------------------------------------------------------------------
\* responses

ErrorResponse(code, msg) ==
    [kind |-> "error", status |-> code, detail |-> msg, body |-> <<>>]
ListResponse(l) == [kind |-> "list", status |-> 200, detail |-> "", body |-> l]

OnHTTPErrorAs500(reply) == ErrorResponse(500, reply.text)

OnHTTPError(reply) == ErrorResponse(reply.status, reply.text)

OnRequestException(reply) == ErrorResponse(500, reply.text)

LoopResponsePartial(r) == ListResponse(r.slim)

LoopResponse(r) ==
    IF r.raised THEN ErrorResponse(500, "Internal Server Error") ELSE ListResponse(r.slim)

--------------------------------------------------------------------------
\* GET /wallet/{address}/txs_simple

Respond(address, limit, calls, reply, newSlim, r) ==
    /\ reqAddress' = address
    /\ reqLimit' = limit
    /\ upstreamCalls' = calls
    /\ upReply' = reply
    /\ slim' = newSlim
    /\ respKind' = r.kind
    /\ respStatus' = r.status
    /\ respDetail' = r.detail
    /\ respBody' = r.body
    /\ hasPrev' = (/\ respKind = "list" /\ r.kind = "list"
                   /\ reqAddress = address /\ reqLimit = limit)
    /\ prevBody' = IF hasPrev' THEN respBody ELSE <<>>
    /\ UNCHANGED <<envKey, upstreamData>>
    /\ UNCHANGED dashVars

get_wallet_txs_simple(address, limit) ==
    IF KeyMissing(envKey)
    THEN Respond(address, limit, 0, NoReply, slim, ErrorResponse(500, MissingKeyDetail))
    ELSE \E reply \in UpstreamReplies(address, limit) :
           IF reply.kind = "neterr"
           THEN Respond(address, limit, 1, reply, slim, OnRequestException(reply))
           ELSE IF RaisesForStatus(reply)
           THEN Respond(address, limit, 1, reply, slim, OnHTTPError(reply))
           ELSE IF reply.kind = "text"
           THEN \E d \in DecodeFailureDetails :
                  Respond(address, limit, 1, reply, slim, ErrorResponse(500, d))
           ELSE LET r == SlimLoop(reply.json, SlimInit)
                IN  Respond(address, limit, 1, reply, r.slim, LoopResponse(r))

Request == \E address \in Addresses, limit \in Limits : get_wallet_txs_simple(address, limit)

InitProxy(datasets) ==
    /\ envKey \in EnvKeys
    /\ upstreamData \in datasets
    /\ reqAddress = ValidAddress
    /\ reqLimit = DefaultLimit
    /\ upstreamCalls = 0
    /\ upReply = NoReply
    /\ slim = <<>>
    /\ respKind = "none"
    /\ respStatus = 0
    /\ respDetail = ""
    /\ respBody = <<>>
    /\ hasPrev = FALSE
    /\ prevBody = <<>>

--------------------------------------------------------------------------
\* Dashboard Client: inputs

DefaultBackend == "http://127.0.0.1:8000"
Wallets == {"So11111111111111111111111111111111111111112", "empty-wallet"}

\* f"{base}/wallet/{addr}/txs_simple?limit={limit}"
Url(base, addr, lim) == <<base, "/wallet/", addr, "/txs_simple?limit=", lim>>

Urls == {Url(DefaultBackend, w, SliderDefault) : w \in Wallets}

\* what the backend may answer: the simplified transactions (signature, type)
TypeValues == {None, "TRANSFER", "SWAP"}
Items == {[signature |-> "S", type |-> t] : t \in TypeValues}
ItemLists == SeqsUpTo(Items, MaxRows)

\* a JSON list of objects, or JSON of another shape (an object, say)
JsonList(l) == [kind |-> "list", items |-> l]
JsonOther == [kind |-> "other", items |-> <<>>]
BackendAnswers == {JsonList(l) : l \in ItemLists} \cup {JsonOther}

\* requests.get + raise_for_status + json() against the backend
BackendOutcomes(addr) ==
    {[exc |-> "HTTPError", json |-> JsonOther],
     [exc |-> "RequestException", json |-> JsonOther],
     [exc |-> "none", json |-> IF addr = ValidAddress THEN backendData ELSE JsonList(<<>>)]}

--------------------------------------------------------------------------
\* cached_get: @st.cache_data(ttl=15)

NoEntry == [has |-> FALSE, age |-> TTL, json |-> JsonOther]

FreshIgnoringTtl(url) == cache[url].has

Fresh(url) == cache[url].has /\ cache[url].age < TTL

Aged(f, d) == [u \in Urls |-> Min(f[u] + d, TTL)]

\* the clock advances by d seconds
Elapse(d) ==
    /\ cache' = [u \in Urls |-> [cache[u] EXCEPT !.age = Min(@ + d, TTL)]]
    /\ sinceCall' = Aged(sinceCall, d)
    /\ sinceOk' = Aged(sinceOk, d)

--------------------------------------------------------------------------
\* to_dataframe and render_table

\* iterating a JSON value that is no list of objects raises
ToDataframeRaises(json) == json.kind = "other"

to_dataframe(json) == json.items

\* sorted(view["type"].dropna().unique().tolist())
Types(df) == {df[i].type : i \in 1..Len(df)} \ {None}

\* the multiselect keeps the user's choice while it is rendered with the
\* same options; otherwise it shows its default
Chosen(df, sel) == IF sel.custom THEN sel.set ELSE Types(df)

InChosen(row) == row.type \in Chosen(table, selection)

\* view[view["type"].isin(chosen)]
View == SelectSeq(table, InChosen)

DefaultSelection == [custom |-> FALSE, set |-> {}]

--------------------------------------------------------------------------
\* run_once

CaughtOnlyRequests(exc) == exc \in {"HTTPError", "RequestException"}

\* the except clauses: HTTPError, RequestException, Exception
Caught(exc) == exc \in {"HTTPError", "RequestException", "Exception"}

StatusOf(exc) ==
    CASE exc = "HTTPError" -> "HTTP error"
      [] exc = "RequestException" -> "Network error"
      [] exc = "Exception" -> "Unexpected error"

\* the end of run_once given what its try block raised
Finish(exc, json, nextPc) ==
    /\ lastExc' = exc
    /\ IF exc = "none"
       THEN LET df == to_dataframe(json)
                keep == shown = "table" /\ Types(df) = Types(table)
            IN  /\ status' = "success"
                /\ shown' = IF df = <<>> THEN "info" ELSE "table"
                /\ table' = df
                /\ selection' = IF df # <<>> /\ keep THEN selection ELSE DefaultSelection
                /\ pc' = nextPc
       ELSE /\ shown' = "none"
            /\ table' = <<>>
            /\ selection' = DefaultSelection
            /\ IF Caught(exc)
               THEN status' = StatusOf(exc) /\ pc' = nextPc
               ELSE status' = "uncaught" /\ pc' = "crashed"

run_once(nextPc) ==
    LET url == Url(DefaultBackend, wallet, SliderDefault) IN
    /\ fetchGapCall' = sinceCall[url]
    /\ fetchGapOk' = sinceOk[url]
    /\ IF Fresh(url)
       THEN /\ fetchNet' = FALSE
            /\ UNCHANGED <<cache, sinceCall, sinceOk>>
            /\ Finish(IF ToDataframeRaises(cache[url].json) THEN "Exception" ELSE "none",
                      cache[url].json, nextPc)
       ELSE \E o \in BackendOutcomes(wallet) :
            /\ fetchNet' = TRUE
            /\ sinceCall' = [sinceCall EXCEPT ![url] = 0]
            /\ IF o.exc = "none"
               THEN /\ cache' = [cache EXCEPT ![url] = [has |-> TRUE, age |-> 0, json |-> o.json]]
                    /\ sinceOk' = [sinceOk EXCEPT ![url] = 0]
                    /\ Finish(IF ToDataframeRaises(o.json) THEN "Exception" ELSE "none",
                              o.json, nextPc)
               ELSE /\ UNCHANGED <<cache, sinceOk>>
                    /\ Finish(o.exc, o.json, nextPc)

--------------------------------------------------------------------------
\* the script, top to bottom

\* if run_btn: run_once()   (the loop below is then skipped)
ManualRun ==
    /\ pc = "start" /\ run_btn
    /\ run_once("idle")
    /\ UNCHANGED <<wallet, auto_refresh, run_btn>>
    /\ UNCHANGED <<proxyVars, backendData>>

\* if auto_refresh and not run_btn: while True: run_once() ...
AutoRun ==
    /\ pc = "start" /\ ~run_btn /\ auto_refresh
    /\ run_once("sleep")
    /\ UNCHANGED <<wallet, auto_refresh, run_btn>>
    /\ UNCHANGED <<proxyVars, backendData>>

\* neither: the run renders the page without a table and ends
NoRun ==
    /\ pc = "start" /\ ~run_btn /\ ~auto_refresh
    /\ pc' = "idle"
    /\ status' = "none"
    /\ shown' = "none"
    /\ table' = <<>>
    /\ selection' = DefaultSelection
    /\ lastExc' = "none"
    /\ fetchNet' = FALSE
    /\ fetchGapCall' = TTL
    /\ fetchGapOk' = TTL
    /\ UNCHANGED <<wallet, auto_refresh, run_btn, cache, sinceCall, sinceOk>>
    /\ UNCHANGED <<proxyVars, backendData>>

\* time.sleep(15)
Sleep ==
    /\ pc = "sleep"
    /\ pc' = "rerun"
    /\ Elapse(SleepSecs)
    /\ UNCHANGED <<wallet, auto_refresh, run_btn, status, shown, table, selection,
                   lastExc, fetchNet, fetchGapCall, fetchGapOk>>
    /\ UNCHANGED <<proxyVars, backendData>>

RerunEndsRun == "idle"

\* st.experimental_rerun() starts the script over
RerunPc == "start"

\* ... with the button unpressed
Rerun ==
    /\ pc = "rerun"
    /\ pc' = RerunPc
    /\ run_btn' = FALSE
    /\ UNCHANGED <<wallet, auto_refresh, cache, status, shown, table, selection,
                   lastExc, sinceCall, sinceOk, fetchNet, fetchGapCall, fetchGapOk>>
    /\ UNCHANGED <<proxyVars, backendData>>

--------------------------------------------------------------------------
\* the user and the clock

\* a widget change while the run has ended starts a new run; during the
\* sleep it is seen by the run that follows
AfterInput == IF pc \in {"idle", "crashed"} THEN pc' = "start" /\ run_btn' = FALSE
              ELSE UNCHANGED <<pc, run_btn>>

UserClickFetch ==
    /\ pc \in {"idle", "crashed"}
    /\ pc' = "start"
    /\ run_btn' = TRUE
    /\ UNCHANGED <<wallet, auto_refresh, cache, status, shown, table, selection,
                   lastExc, sinceCall, sinceOk, fetchNet, fetchGapCall, fetchGapOk>>
    /\ UNCHANGED <<proxyVars, backendData>>

UserToggleAuto ==
    /\ pc \in {"idle", "crashed", "sleep"}
    /\ auto_refresh' = ~auto_refresh
    /\ AfterInput
    /\ UNCHANGED <<wallet, cache, status, shown, table, selection,
                   lastExc, sinceCall, sinceOk, fetchNet, fetchGapCall, fetchGapOk>>
    /\ UNCHANGED <<proxyVars, backendData>>

UserChangeWallet ==
    /\ pc \in {"idle", "crashed", "sleep"}
    /\ \E w \in Wallets \ {wallet} : wallet' = w
    /\ AfterInput
    /\ UNCHANGED <<auto_refresh, cache, status, shown, table, selection,
                   lastExc, sinceCall, sinceOk, fetchNet, fetchGapCall, fetchGapOk>>
    /\ UNCHANGED <<proxyVars, backendData>>

UserSelectTypes ==
    /\ pc \in {"idle", "sleep"}
    /\ shown = "table"
    /\ \E S \in SUBSET Types(table) :
         /\ S # Chosen(table, selection)
         /\ selection' = [custom |-> TRUE, set |-> S]
    /\ AfterInput
    /\ UNCHANGED <<wallet, auto_refresh, cache, status, shown, table,
                   lastExc, sinceCall, sinceOk, fetchNet, fetchGapCall, fetchGapOk>>
    /\ UNCHANGED <<proxyVars, backendData>>

Tick ==
    /\ pc = "idle"
    /\ Elapse(Quantum)
    /\ UNCHANGED <<pc, wallet, auto_refresh, run_btn, status, shown, table, selection,
                   lastExc, fetchNet, fetchGapCall, fetchGapOk>>
    /\ UNCHANGED <<proxyVars, backendData>>

InitDash(answers) ==
    /\ pc = "start"
    /\ backendData \in answers
    /\ wallet = ValidAddress
    /\ auto_refresh = FALSE
    /\ run_btn = FALSE
    /\ cache = [u \in Urls |-> NoEntry]
    /\ status = "none"
    /\ shown = "none"
    /\ table = <<>>
    /\ selection = DefaultSelection
    /\ lastExc = "none"
    /\ sinceCall = [u \in Urls |-> TTL]
    /\ sinceOk = [u \in Urls |-> TTL]
    /\ fetchNet = FALSE
    /\ fetchGapCall = TTL
    /\ fetchGapOk = TTL

--------------------------------------------------------------------------
Init == InitProxy(TxLists) /\ InitDash({JsonList(<<>>)})

Next == Request

Spec == Init /\ [][Next]_vars

SimplifyInit == InitProxy(SingleTxLists) /\ InitDash({JsonList(<<>>)})

SimplifyNext == Request

SimplifySpec == SimplifyInit /\ [][SimplifyNext]_vars

DashInit == InitProxy({<<>>}) /\ envKey = "key-1" /\ InitDash(BackendAnswers)

DashNext ==
    \/ ManualRun
    \/ AutoRun
    \/ NoRun
    \/ Sleep
    \/ Rerun
    \/ UserClickFetch
    \/ UserToggleAuto
    \/ UserChangeWallet
    \/ UserSelectTypes
    \/ Tick

DashSpec == DashInit /\ [][DashNext]_vars

\* the script's own steps always go on; the user's and the clock's need not
DashFair ==
    /\ DashInit /\ [][DashNext]_vars
    /\ WF_vars(ManualRun) /\ WF_vars(AutoRun) /\ WF_vars(NoRun)
    /\ WF_vars(Sleep) /\ WF_vars(Rerun)

--------------------------------------------------------------------------
\* Properties of the Transaction Proxy

\* JSON null for an absent key, as the response shows it
OrNull(v) == IF v = Absent THEN None ELSE v

Entry(ch) ==
    [symbol |-> ch.tokenInfo.symbol, amount |-> OrNull(ch.tokenAmount),
     owner |-> OrNull(ch.account)]

Entries(changes) == [j \in 1..Len(changes) |-> Entry(changes[j])]

\* the balance change has a symbol key holding a value
HasPresentSymbol(ch) ==
    ch.tokenInfo.kind = "obj" /\ ch.tokenInfo.symbol \notin {Absent, None}

\* ... holding a non-empty value
HasNonEmptySymbol(ch) == HasPresentSymbol(ch) /\ ch.tokenInfo.symbol # ""

RawChanges(i) == upReply.json[i].balanceChanges.items

\* C1 as stated: in a list response, the token_changes of every transaction
\* are exactly its balance changes whose symbol is present (not missing, not
\* null), in upstream order, so never more than the raw entries.
C1_PresentSymbolsKept ==
    respKind = "list" =>
        \A i \in 1..Len(respBody) :
            /\ respBody[i].token_changes = Entries(SelectSeq(RawChanges(i), HasPresentSymbol))
            /\ Len(respBody[i].token_changes) <= Len(RawChanges(i))

\* C1 amended: in a list response, the token_changes of every transaction
\* are exactly its balance changes whose symbol is present and not the empty
\* string, in upstream order, so never more than the raw entries.
C1_NonEmptySymbolsKept ==
    respKind = "list" =>
        \A i \in 1..Len(respBody) :
            /\ respBody[i].token_changes = Entries(SelectSeq(RawChanges(i), HasNonEmptySymbol))
            /\ Len(respBody[i].token_changes) <= Len(RawChanges(i))

\* a response whose transaction kept one balance change and dropped another
C1_Witness ==
    /\ respKind = "list" /\ Len(respBody) = 1
    /\ Len(RawChanges(1)) = 2
    /\ Len(respBody[1].token_changes) = 1

\* C2: whenever the upstream answer decoded to a JSON list, the proxy answers
\* the list (nothing raised), a missing or null timestamp or type is None in
\* it, and a missing, null or malformed balanceChanges gives an empty
\* token_changes.
C2_NeverRaises ==
    (respKind # "none" /\ upReply.kind = "json") =>
        /\ respKind = "list"
        /\ Len(respBody) = Len(upReply.json)
        /\ \A i \in 1..Len(respBody) :
            LET tx == upReply.json[i] IN
            /\ tx.timestamp \in {Absent, None} => respBody[i].timestamp = None
            /\ tx.type \in {Absent, None} => respBody[i].type = None
            /\ tx.balanceChanges.kind # "list" => respBody[i].token_changes = <<>>

UpstreamAnswered == upstreamCalls = 1 /\ upReply.kind \in {"text", "json"}

PassedThrough ==
    respKind = "error" /\ respStatus = upReply.status /\ respDetail = upReply.text

C4_MissingCredential ==
    (respKind # "none" /\ envKey \in {Absent, ""}) =>
        /\ respKind = "error"
        /\ respStatus = 500
        /\ respDetail = "HELIUS_API_KEY missing in .env or environment variables"
        /\ upstreamCalls = 0

\* a request answered while the variable is unset
C4_Witness == respKind = "error" /\ envKey = Absent /\ upstreamCalls = 0

\* C7: a request issues at most one upstream call and ends either in the
\* complete list (one entry per upstream transaction, in upstream order) or
\* in one error response without any list.
C7_OneCallOneOutcome ==
    /\ upstreamCalls <= 1
    /\ respKind = "list" =>
        /\ respStatus = 200
        /\ upstreamCalls = 1 /\ upReply.kind = "json"
        /\ Len(respBody) = Len(upReply.json)
        /\ \A i \in 1..Len(respBody) :
            respBody[i].signature = OrNull(upReply.json[i].signature)
    /\ respKind = "error" => (respStatus >= 400 /\ respBody = <<>>)
    /\ respKind = "none" => upstreamCalls = 0

\* a complete list of two different transactions
C7_Witness ==
    /\ respKind = "list" /\ Len(respBody) = 2
    /\ respBody[1].signature # respBody[2].signature

\* C8: a request repeated with the same address and limit against the same
\* upstream data answers the same list as before.
C8_SameAnswer == hasPrev => respBody = prevBody

\* a repeated request that answered a non-empty list twice
C8_Witness == hasPrev /\ respBody # <<>>

--------------------------------------------------------------------------
\* Properties of the Dashboard Client

Fetched == status # "none"

\* C5 as stated: a fetch issues a network call only if no network call for
\* the same URL was issued within the last 15 seconds, and it does issue one
\* when that window has expired.
C5_OneCallPerWindow ==
    Fetched =>
        /\ fetchNet => fetchGapCall >= TTL
        /\ fetchGapCall >= TTL => fetchNet

\* C5 amended: a fetch issues no network call when a network call for the
\* same URL was answered with JSON within the last 15 seconds, and issues
\* one otherwise (a failed call is not cached).
C5_OneAnsweredCallPerWindow ==
    Fetched =>
        /\ fetchGapOk < TTL => ~fetchNet
        /\ fetchGapOk >= TTL => fetchNet

\* a fetch served from the cache inside the window
C5_Witness == Fetched /\ fetchGapOk < TTL /\ ~fetchNet /\ fetchGapOk > 0

Message(exc) ==
    IF exc = "HTTPError" THEN "HTTP error"
    ELSE IF exc = "RequestException" THEN "Network error"
    ELSE "Unexpected error"

\* C6: whatever run_once's fetch, transform or render raises is shown as a
\* status message, the script does not die of it, and the dashboard goes on:
\* the user can fetch again, or the auto-refresh loop continues.
C6_ErrorsCaught ==
    /\ status # "uncaught" /\ pc # "crashed"
    /\ lastExc # "none" =>
        /\ status = Message(lastExc)
        /\ pc \in {"idle", "start"} => ENABLED (UserClickFetch \/ ManualRun \/ AutoRun \/ NoRun)
        /\ pc \in {"sleep", "rerun"} => ENABLED (Sleep \/ Rerun)

\* a manual cycle that failed outside the HTTP client
C6_Witness == lastExc = "Exception" /\ status = "Unexpected error" /\ pc = "idle"

AllRows(df) == {df[i] : i \in 1..Len(df)}

\* C9: the filter options are the distinct type values of the fetched table,
\* all selected by default; the view is a part of the fetched rows, and with
\* the default selection it is all of them.
C9_DefaultShowsAll ==
    shown = "table" =>
        /\ Types(table) = {table[i].type : i \in 1..Len(table)} \ {None}
        /\ ~selection.custom => Chosen(table, selection) = Types(table)
        /\ AllRows(View) \subseteq AllRows(table) /\ Len(View) <= Len(table)
        /\ ~selection.custom => View = table

AutoCycleEnded == pc \in {"sleep", "crashed"} /\ ~run_btn

AutoCycleStarts == pc = "start" /\ auto_refresh /\ ~run_btn

\* C10: with auto-refresh on, every auto-refresh cycle (its fetch failed or
\* not) is followed by another one, unless auto-refresh is switched off.
C10_AutoRepeats ==
    [](AutoCycleEnded /\ auto_refresh
        => <>(~auto_refresh \/ (AutoCycleStarts /\ <>AutoCycleEnded)))

\* an auto-refresh cycle whose fetch failed
C10_Witness == pc = "sleep" /\ auto_refresh /\ lastExc = "HTTPError"

==========================================================================
